---------------------------- MODULE Spec2Model ----------------------------
(***************************************************************************)
(* Model of gPathTrace (source/gPathTrace/mainPathTrace.cpp): the Sample   *)
(* window class with its handlers init, display, reshape, motion and mouse *)
(* and the scene-graph builder RebuildOptixGraph.                          *)
(*                                                                         *)
(* Units.  The code computes with floats; the model uses fixed point:      *)
(*   - orbit angles are counted in fifths of a degree, so that the drag    *)
(*     sensitivity 0.2f is one unit per pixel (Deg(d) = 5*d);              *)
(*   - the look-at target is counted in thousandths, so that the pan       *)
(*     dx * dist / 1000 is the integer dx * dist;                          *)
(*   - scale factors are counted in hundredths (.25 is 25);                *)
(*   - translations and the orbit distance are whole numbers, as the code  *)
(*     only adds the integers dx and dy to them.                           *)
(***************************************************************************)
EXTENDS Integers, Sequences, FiniteSets, TLC

\* ------------------------------------------------------------------ bounds
\* Display ticks are allowed while frame * max_samples + sample < MaxProgress:
\* one whole accumulation cycle and the first samples of the next.
MaxProgress == 1030
\* Input events (mouse, motion, reshape) delivered to one session.
MaxEvents == 3
\* Invocations of the scene-graph builder after init (SpecBuilder only).
MaxBuilds == 2
\* Display ticks allowed in SpecBuilder.
MaxBuilderTicks == 3

\* --------------------------------------------------------------- constants
SHADE_TRILINEAR == "SHADE_TRILINEAR"
SHADE_VOLUME    == "SHADE_VOLUME"
SHADE_EMPTYSKIP == "SHADE_EMPTYSKIP"
ValidShading == {SHADE_TRILINEAR, SHADE_VOLUME, SHADE_EMPTYSKIP}
\* Values of the int parameter shading that the builder's switch has no case for.
OtherShading == {"SHADE_OTHER_A", "SHADE_OTHER_B"}
ShadingInputs == ValidShading \cup OtherShading

MOUSE_BUTTON_LEFT   == "MOUSE_BUTTON_LEFT"
MOUSE_BUTTON_MIDDLE == "MOUSE_BUTTON_MIDDLE"
MOUSE_BUTTON_RIGHT  == "MOUSE_BUTTON_RIGHT"
\* mouse_down = -1: no button is down.
MOUSE_NONE == "-1"
Buttons == {MOUSE_BUTTON_LEFT, MOUSE_BUTTON_MIDDLE, MOUSE_BUTTON_RIGHT}
BUTTON_PRESS   == "BUTTON_PRESS"
BUTTON_RELEASE == "BUTTON_RELEASE"
ButtonActions == {BUTTON_PRESS, BUTTON_RELEASE}

\* The convergence budget init sets.
MAX_SAMPLES == 1024

\* Values a field of Sample may hold before init assigns it.
UninitInt == {-1, 7}

\* Pointer deltas delivered with a motion event.
Drags == {<<10, -5>>, <<0, 8>>}
\* Window sizes delivered with a reshape event.
Sizes == {<<1024, 768>>, <<640, 480>>}

\* ----------------------------------------------------------------- vectors
Deg(d) == 5 * d
Zero3 == <<0, 0, 0>>
VAdd(a, b) == <<a[1] + b[1], a[2] + b[2], a[3] + b[3]>>

\* Matrix4F::Identity, as (rotation, scale, translation).
IdentityXform == [rot |-> Zero3, scale |-> <<100, 100, 100>>, trans |-> Zero3]

\* ------------------------------------------------------ ray-tracing engine
\* The OptixScene object: its graph, the (frame, sample) pair it was last
\* informed of, and what its last render dispatch consumed.
EmptyGraph ==
  [mats |-> <<>>, vols |-> <<>>, polys |-> <<>>, tf |-> "none",
   validated |-> "no", synced |-> FALSE, calls |-> <<>>]

OptixInitial ==
  [graph |-> EmptyGraph, frame |-> 0, sample |-> 0,
   rendered |-> [frame |-> 0, sample |-> 0, shading |-> "none", validated |-> "no"],
   out |-> <<0, 0>>]

ClearGraph(g) ==
  [EmptyGraph EXCEPT !.calls = <<"ClearGraph">>]

\* The id AddMaterial returns for the material it registers.
NextMaterialId(g) == Len(g.mats)

AddMaterial(g, name, closest, any) ==
  [g EXCEPT !.mats = Append(@, [name |-> name, closest |-> closest, any |-> any,
                                params |-> "default"]),
            !.calls = Append(@, "AddMaterial")]

SetMaterialParams(g, id, p) ==
  [g EXCEPT !.mats[id + 1].params = p, !.calls = Append(@, "SetMaterialParams")]

AddVolume(g, atlas, volmin, volmax, xform, matid, isect) ==
  [g EXCEPT !.vols = Append(@, [atlas |-> atlas, volmin |-> volmin, volmax |-> volmax,
                                xform |-> xform, matid |-> matid, isect |-> isect]),
            !.calls = Append(@, "AddVolume")]

AddPolygons(g, model, matid, xform) ==
  [g EXCEPT !.polys = Append(@, [model |-> model, matid |-> matid, xform |-> xform]),
            !.calls = Append(@, "AddPolygons")]

SetTransferFunc(g, src) ==
  [g EXCEPT !.tf = src, !.calls = Append(@, "SetTransferFunc")]

\* Every referenced material, geometry and intersection program resolves.
Resolvable(g, progsOk) ==
  /\ progsOk
  /\ \A i \in 1..Len(g.vols) :
       /\ g.vols[i].matid \in 0..(Len(g.mats) - 1)
       /\ g.vols[i].isect \in {"S", "D", "E"}
  /\ \A i \in 1..Len(g.polys) :
       /\ g.polys[i].matid \in 0..(Len(g.mats) - 1)
       /\ g.polys[i].model # "none"

ValidateGraph(g, progsOk) ==
  [g EXCEPT !.validated = IF Resolvable(g, progsOk) THEN "ok" ELSE "failed",
            !.calls = Append(@, "ValidateGraph")]

UpdateVolume(g) ==
  [g EXCEPT !.synced = TRUE, !.calls = Append(@, "UpdateVolume")]

SetSample(o, f, s) == [o EXCEPT !.frame = f, !.sample = s]

\* One render dispatch: the engine consumes the pair it was informed of.
OptixRender(o, shading) ==
  [o EXCEPT !.rendered = [frame |-> o.frame, sample |-> o.sample,
                          shading |-> shading, validated |-> o.graph.validated]]

ResizeOutput(o, w, h) == [o EXCEPT !.out = <<w, h>>]

\* ------------------------------------------------------ scene-graph builder
\* The material parameters RebuildOptixGraph writes through matp (hundredths).
SurfaceParams ==
  [light_width |-> 50, shadow_width |-> 50, diff_color |-> <<50, 54, 50>>,
   spec_color |-> <<70, 70, 70>>, spec_power |-> 8000, env_color |-> Zero3,
   refl_width |-> 30, refl_color |-> <<80, 80, 80>>, refr_width |-> 0,
   refr_color |-> Zero3, refr_ior |-> 120, refr_amount |-> 100,
   refr_offset |-> 1500]

\* What matid and isect may hold when no case of the switch assigns them.
UninitMatIds == {0, 1, 5}
UninitIsects == {"S", "D", "E", "?"}
UninitPairs == [matid : UninitMatIds, isect : UninitIsects]

\* Variant: the empty-skip case takes the deep-volume material.
SelectShading_SkipDeep(shading, surf, deep, ub) ==
  CASE shading = SHADE_TRILINEAR -> [matid |-> surf, isect |-> "S"]
    [] shading = SHADE_VOLUME    -> [matid |-> deep, isect |-> "D"]
    [] shading = SHADE_EMPTYSKIP -> [matid |-> deep, isect |-> "E"]
    [] OTHER                     -> ub

\* switch (shading): the (matid, isect) pair; no default case, so any other
\* shading leaves both locals as they were: uninitialised (ub).
SelectShading(shading, surf, deep, ub) ==
  CASE shading = SHADE_TRILINEAR -> [matid |-> surf, isect |-> "S"]
    [] shading = SHADE_VOLUME    -> [matid |-> deep, isect |-> "D"]
    [] shading = SHADE_EMPTYSKIP -> [matid |-> surf, isect |-> "E"]
    [] OTHER                     -> ub

\* Variant: the builder does not clear the previously built graph.
RebuiltGraph_NoClear(g, shading, ub, scene, progsOk) ==
  LET g0   == g
      surf == NextMaterialId(g0)
      g1   == AddMaterial(g0, "optix_trace_surface", "trace_surface", "trace_shadow")
      matp == SurfaceParams
      g2   == SetMaterialParams(g1, surf, matp)
      deep == NextMaterialId(g2)
      g3   == AddMaterial(g2, "optix_trace_deep", "trace_deep", "trace_shadow")
      g4   == SetMaterialParams(g3, deep, matp)
      sel  == SelectShading(shading, surf, deep, ub)
      g5   == AddVolume(g4, scene.atlas, scene.volmin, scene.volmax,
                        IdentityXform, sel.matid, sel.isect)
      g6   == AddPolygons(g5, scene.model, 0, IdentityXform)
      g7   == SetTransferFunc(g6, scene.tf)
      g8   == ValidateGraph(g7, progsOk)
      g9   == UpdateVolume(g8)
  IN  [graph |-> g9, mat_surf1 |-> surf, mat_deep |-> deep]

\* Variant: the transfer function is pushed after the validation.
RebuiltGraph_LateTransferFunc(g, shading, ub, scene, progsOk) ==
  LET g0   == ClearGraph(g)
      surf == NextMaterialId(g0)
      g1   == AddMaterial(g0, "optix_trace_surface", "trace_surface", "trace_shadow")
      matp == SurfaceParams
      g2   == SetMaterialParams(g1, surf, matp)
      deep == NextMaterialId(g2)
      g3   == AddMaterial(g2, "optix_trace_deep", "trace_deep", "trace_shadow")
      g4   == SetMaterialParams(g3, deep, matp)
      sel  == SelectShading(shading, surf, deep, ub)
      g5   == AddVolume(g4, scene.atlas, scene.volmin, scene.volmax,
                        IdentityXform, sel.matid, sel.isect)
      g6   == AddPolygons(g5, scene.model, 0, IdentityXform)
      g7   == ValidateGraph(g6, progsOk)
      g8   == SetTransferFunc(g7, scene.tf)
      g9   == UpdateVolume(g8)
  IN  [graph |-> g9, mat_surf1 |-> surf, mat_deep |-> deep]

\* The body of RebuildOptixGraph on the engine's graph g.  scene is what it
\* reads from the volume engine; progsOk is whether the engine can resolve the
\* programs the materials name.  Yields the graph and the two material ids.
RebuiltGraph(g, shading, ub, scene, progsOk) ==
  LET g0   == ClearGraph(g)
      surf == NextMaterialId(g0)
      g1   == AddMaterial(g0, "optix_trace_surface", "trace_surface", "trace_shadow")
      matp == SurfaceParams
      g2   == SetMaterialParams(g1, surf, matp)
      deep == NextMaterialId(g2)
      g3   == AddMaterial(g2, "optix_trace_deep", "trace_deep", "trace_shadow")
      g4   == SetMaterialParams(g3, deep, matp)
      sel  == SelectShading(shading, surf, deep, ub)
      g5   == AddVolume(g4, scene.atlas, scene.volmin, scene.volmax,
                        IdentityXform, sel.matid, sel.isect)
      g6   == AddPolygons(g5, scene.model, 0, IdentityXform)
      g7   == SetTransferFunc(g6, scene.tf)
      g8   == ValidateGraph(g7, progsOk)
      g9   == UpdateVolume(g8)
  IN  [graph |-> g9, mat_surf1 |-> surf, mat_deep |-> deep]

\* ----------------------------------------------------------- volume engine
\* Camera3D::setOrbit and Light::setOrbit store what they are given.
setOrbit(c, angs, tp, dist, dolly) ==
  [c EXCEPT !.ang = angs, !.to_pos = tp, !.dist = dist, !.dolly = dolly]

\* Camera3D::moveRelative: pans the look-at target in the camera's own axes.
moveRelative(c, mx, my, mz) ==
  [c EXCEPT !.to_pos = VAdd(@, <<mx, my, mz>>)]

\* VolumeGVDB::SetTransform(rotation, scale, rotation centre, translation).
SetTransform(rot, scale, centre, trans) ==
  [rot |-> rot, scale |-> scale, centre |-> centre, trans |-> trans]

NoOrbit == [ang |-> Zero3, to_pos |-> Zero3, dist |-> 0, dolly |-> 0, fov |-> 0]

\* The VolumeGVDB object before init configures it.
GvdbInitial ==
  [model |-> "none", volume |-> "none", tf |-> "none",
   xform |-> SetTransform(Zero3, <<100, 100, 100>>, Zero3, Zero3),
   cam |-> NoOrbit, light |-> NoOrbit, buf |-> <<0, 0>>, rendered |-> "none"]

\* What RebuildOptixGraph reads from the volume engine.
SceneOf(gv) ==
  [atlas |-> "atlas0", volmin |-> "WorldMin", volmax |-> "WorldMax",
   model |-> gv.model, tf |-> gv.tf]

\* ------------------------------------------------------------------- state
VARIABLES
  phase,          \* "constructed", "running" (init returned true) or "aborted"
  env,            \* the files and programs the session finds
  winsize,        \* getWidth(), getHeight()
  gl_screen_tex,  \* size of the screen texture, <<0, 0>> when not created
  mouse_down, frame, sample, max_samples, m_shading, m_render_optix,
  m_translate, mat_surf1, mat_deep,
  gvdb,           \* the volume engine
  optx,           \* the ray-tracing engine
  redraw,         \* a redraw request is pending with the window system
  lastEvent,      \* the handler that ran last
  posted,         \* postRedisplay calls made by the handler that ran last
  dirty,          \* a drag was processed and no display tick has begun since
  ticks,          \* display ticks since init, while no input event has occurred
  events,         \* input events delivered so far
  builds,         \* builder invocations after init
  built,          \* shading modes of the builder invocations in succession
  args,           \* dx, dy and shift of the motion event, when it ran last
  click           \* button and state of the mouse event, when it ran last

vars ==
  <<phase, env, winsize, gl_screen_tex, mouse_down, frame, sample, max_samples,
    m_shading, m_render_optix, m_translate, mat_surf1, mat_deep, gvdb, optx,
    redraw, lastEvent, posted, dirty, ticks, events, builds, built, args, click>>

\* Sample's own fields.
fields ==
  <<mouse_down, frame, sample, max_samples, m_shading, m_render_optix,
    m_translate, mat_surf1, mat_deep>>

NominalEnv == [vdbFound |-> TRUE, vdbLoads |-> TRUE, objFound |-> TRUE, progsOk |-> TRUE]
\* The session's environments: everything in place, or the dataset missing
\* or unreadable.
SessionEnvs ==
  {NominalEnv, [NominalEnv EXCEPT !.vdbFound = FALSE],
   [NominalEnv EXCEPT !.vdbLoads = FALSE]}
\* The builder's environments: also the model file missing, or a program the
\* engine cannot resolve.
BuilderEnvs ==
  SessionEnvs \cup {[NominalEnv EXCEPT !.objFound = FALSE],
                    [NominalEnv EXCEPT !.progsOk = FALSE]}

NoArgs == [dx |-> 0, dy |-> 0, shift |-> FALSE]
NoClick == [button |-> "none", state |-> "none"]

\* The constructed Sample object: init has not run, its fields are unset.
Constructed(envs) ==
  /\ phase = "constructed"
  /\ env \in envs
  /\ winsize = <<1024, 768>>
  /\ gl_screen_tex = <<0, 0>>
  /\ \E u \in UninitInt :
       /\ frame = u /\ sample = u /\ max_samples = u
       /\ mat_surf1 = u /\ mat_deep = u
  /\ mouse_down = "unset"
  /\ m_shading = "unset"
  /\ m_render_optix \in BOOLEAN
  /\ m_translate = Zero3
  /\ gvdb = GvdbInitial
  /\ optx = OptixInitial
  /\ redraw = TRUE
  /\ lastEvent = "none"
  /\ posted = 0
  /\ dirty = FALSE
  /\ ticks = 0
  /\ events = 0
  /\ builds = 0
  /\ built = <<>>
  /\ args = NoArgs
  /\ click = NoClick

Init == Constructed(SessionEnvs)

\* ---------------------------------------------------------------- handlers
\* Variant: the comparison is <= instead of <.
AdvanceSample_OffByOne(f, s, max) ==
  IF s + 1 <= max THEN <<f, s + 1>> ELSE <<f + 1, 0>>

\* Variant: the counter advances by two.
AdvanceSample_SkipOne(f, s, max) ==
  IF s + 2 < max THEN <<f, s + 2>> ELSE <<f + 1, 0>>

\* Variant: the wrap forgets ++frame.
AdvanceSample_NoFrame(f, s, max) ==
  IF s + 1 < max THEN <<f, s + 1>> ELSE <<f, 0>>

\* The (frame, sample) pair display moves to: ++sample < max_samples, else
\* ++frame and sample = 0.
AdvanceSample(f, s, max) ==
  IF s + 1 < max THEN <<f, s + 1>> ELSE <<f + 1, 0>>

\* Variant: only the redraw request inside the accumulation branch.
DisplayPosts_NoClosing(s, max) ==
  IF s + 1 < max THEN 1 ELSE 0

\* postRedisplay calls of one display tick: one while accumulating, and the
\* closing one.
DisplayPosts(s, max) ==
  (IF s + 1 < max THEN 1 ELSE 0) + 1

\* Variant: SetSample is called after the counters advance.
SampleInformed_AfterAdvance(f, s, max) ==
  IF s + 1 < max THEN <<f, s + 1>> ELSE <<f + 1, 0>>

\* The pair display hands to optx.SetSample: the one the tick starts with.
SampleInformed(f, s, max) == <<f, s>>

\* Variant: the pitch delta is not negated.
OrbitDelta_NoNegate(dx, dy) == <<dx, dy, 0>>

\* delta.Set(dx*0.2f, -dy*0.2f, 0), in fifths of a degree.
OrbitDelta(dx, dy) == <<dx, -dy, 0>>

\* The volume engine as init leaves it when it runs to its end.
GvdbConfigured(gv, w, h, translate, objFound) ==
  [gv EXCEPT
     !.model = IF objFound THEN "lucy.obj" ELSE "none",
     !.volume = "wdas_cloud_eighth.vdb",
     !.xform = SetTransform(<<0, 90, 0>>, <<25, 25, 25>>, Zero3, translate),
     !.tf = "linear",
     !.cam = setOrbit([NoOrbit EXCEPT !.fov = 30],
                      <<Deg(-20), Deg(30), 0>>, Zero3, 500, 1),
     !.light = setOrbit(NoOrbit, <<Deg(45), Deg(45), 0>>, Zero3, 200, 1),
     !.buf = <<w, h>>]

\* bool Sample::init()
init ==
  /\ phase = "constructed"
  /\ LET w == winsize[1]
         h == winsize[2]
         translate == <<-200, 0, -400>>
         gv == GvdbConfigured(gvdb, w, h, translate, env.objFound)
     IN
     /\ mouse_down' = MOUSE_NONE
     /\ frame' = 0
     /\ sample' = 0
     /\ max_samples' = MAX_SAMPLES
     /\ m_render_optix' = TRUE
     /\ m_shading' = SHADE_VOLUME
     /\ m_translate' = translate
     /\ IF ~env.vdbFound \/ ~env.vdbLoads
        THEN \* gerror(): the session ends here
             /\ phase' = "aborted"
             /\ gvdb' = [gvdb EXCEPT !.model = gv.model]
             /\ optx' = ResizeOutput(optx, w, h)
             /\ UNCHANGED <<gl_screen_tex, mat_surf1, mat_deep>>
        ELSE \E ub \in UninitPairs :
               LET r == RebuiltGraph(optx.graph, SHADE_VOLUME, ub, SceneOf(gv),
                                     env.progsOk)
               IN /\ phase' = "running"
                  /\ gvdb' = gv
                  /\ gl_screen_tex' = <<w, h>>
                  /\ optx' = [ResizeOutput(optx, w, h) EXCEPT !.graph = r.graph]
                  /\ mat_surf1' = r.mat_surf1
                  /\ mat_deep' = r.mat_deep
  /\ built' = IF phase' = "running" THEN <<SHADE_VOLUME>> ELSE <<>>
  /\ lastEvent' = "init"
  /\ posted' = 0
  /\ UNCHANGED <<env, winsize, redraw, dirty, ticks, events, builds, args, click>>

\* void Sample::display()
display ==
  /\ phase = "running"
  /\ redraw
  /\ LET inf == SampleInformed(frame, sample, max_samples)
         adv == AdvanceSample(frame, sample, max_samples)
     IN
     /\ optx' = IF m_render_optix
                THEN OptixRender(SetSample(optx, inf[1], inf[2]), m_shading)
                ELSE optx
     /\ gvdb' = IF m_render_optix THEN gvdb ELSE [gvdb EXCEPT !.rendered = m_shading]
     /\ frame' = adv[1]
     /\ sample' = adv[2]
  /\ posted' = DisplayPosts(sample, max_samples)
  /\ redraw' = (posted' >= 1)
  /\ lastEvent' = "display"
  /\ dirty' = FALSE
  /\ ticks' = IF events = 0 THEN ticks + 1 ELSE ticks
  /\ built' = <<>>
  /\ args' = NoArgs
  /\ click' = NoClick
  /\ UNCHANGED <<phase, env, winsize, gl_screen_tex, mouse_down, max_samples,
                 m_shading, m_render_optix, m_translate, mat_surf1, mat_deep,
                 events, builds>>

\* Variant: a resize restarts the accumulation a frame further.
reshape_NewFrame(w, h) ==
  /\ phase = "running"
  /\ winsize' = <<w, h>>
  /\ gl_screen_tex' = <<w, h>>
  /\ gvdb' = [gvdb EXCEPT !.buf = <<w, h>>]
  /\ optx' = IF m_render_optix THEN ResizeOutput(optx, w, h) ELSE optx
  /\ frame' = frame + 1
  /\ sample' = 0
  /\ posted' = 1
  /\ redraw' = TRUE
  /\ lastEvent' = "reshape"
  /\ events' = events + 1
  /\ ticks' = 0
  /\ built' = <<>>
  /\ args' = NoArgs
  /\ click' = NoClick
  /\ UNCHANGED <<phase, env, mouse_down, max_samples, m_shading, m_render_optix,
                 m_translate, mat_surf1, mat_deep, dirty, builds>>

\* void Sample::reshape(int w, int h)
reshape(w, h) ==
  /\ phase = "running"
  /\ winsize' = <<w, h>>
  /\ gl_screen_tex' = <<w, h>>
  /\ gvdb' = [gvdb EXCEPT !.buf = <<w, h>>]
  /\ optx' = IF m_render_optix THEN ResizeOutput(optx, w, h) ELSE optx
  /\ posted' = 1
  /\ redraw' = TRUE
  /\ lastEvent' = "reshape"
  /\ events' = events + 1
  /\ ticks' = 0
  /\ built' = <<>>
  /\ args' = NoArgs
  /\ click' = NoClick
  /\ UNCHANGED <<phase, env, fields, dirty, builds>>

\* Variant: a release clears mouse_down only when it is of the button held.
mouse_ReleaseOwn(button, state) ==
  /\ phase = "running"
  /\ mouse_down' = IF state = BUTTON_PRESS THEN button
                   ELSE IF button = mouse_down THEN MOUSE_NONE ELSE mouse_down
  /\ posted' = 0
  /\ lastEvent' = "mouse"
  /\ events' = events + 1
  /\ ticks' = 0
  /\ UNCHANGED <<phase, env, winsize, gl_screen_tex, frame, sample, max_samples,
                 m_shading, m_render_optix, m_translate, mat_surf1, mat_deep,
                 gvdb, optx, redraw, dirty, builds>>
  /\ built' = <<>>
  /\ args' = NoArgs
  /\ click' = [button |-> button, state |-> state]

\* void Sample::mouse(button, state, mods, x, y)
mouse(button, state) ==
  /\ phase = "running"
  /\ mouse_down' = IF state = BUTTON_PRESS THEN button ELSE MOUSE_NONE
  /\ posted' = 0
  /\ lastEvent' = "mouse"
  /\ events' = events + 1
  /\ ticks' = 0
  /\ UNCHANGED <<phase, env, winsize, gl_screen_tex, frame, sample, max_samples,
                 m_shading, m_render_optix, m_translate, mat_surf1, mat_deep,
                 gvdb, optx, redraw, dirty, builds>>
  /\ built' = <<>>
  /\ args' = NoArgs
  /\ click' = [button |-> button, state |-> state]

\* Variant: the left-button case adds dx to the X translation.
motionLeft_PlusDx(dx, dy, shift) ==
  /\ IF shift
     THEN LET t == <<m_translate[1] + dx, m_translate[2], m_translate[3] - dy>> IN
          /\ m_translate' = t
          /\ gvdb' = [gvdb EXCEPT !.xform = SetTransform(Zero3, <<25, 25, 25>>, Zero3, t)]
     ELSE LET angs == VAdd(gvdb.cam.ang, OrbitDelta(dx, dy)) IN
          /\ gvdb' = [gvdb EXCEPT !.cam = setOrbit(@, angs, @.to_pos, @.dist, @.dolly)]
          /\ UNCHANGED m_translate
  /\ sample' = 0
  /\ posted' = 1
  /\ redraw' = TRUE
  /\ dirty' = TRUE

\* The three cases of motion's switch; each ends with sample = 0 and
\* postRedisplay().
motionLeft(dx, dy, shift) ==
  /\ IF shift
     THEN LET t == <<m_translate[1] - dx, m_translate[2], m_translate[3] - dy>> IN
          /\ m_translate' = t
          /\ gvdb' = [gvdb EXCEPT !.xform = SetTransform(Zero3, <<25, 25, 25>>, Zero3, t)]
     ELSE LET angs == VAdd(gvdb.cam.ang, OrbitDelta(dx, dy)) IN
          /\ gvdb' = [gvdb EXCEPT !.cam = setOrbit(@, angs, @.to_pos, @.dist, @.dolly)]
          /\ UNCHANGED m_translate
  /\ sample' = 0
  /\ posted' = 1
  /\ redraw' = TRUE
  /\ dirty' = TRUE

motionMiddle(dx, dy) ==
  /\ gvdb' = [gvdb EXCEPT !.cam = moveRelative(@, dx * @.dist, (-dy) * @.dist, 0)]
  /\ UNCHANGED m_translate
  /\ sample' = 0
  /\ posted' = 1
  /\ redraw' = TRUE
  /\ dirty' = TRUE

\* Variant: the right-button case forgets sample = 0.
motionRight_NoReset(dx, dy, shift) ==
  /\ IF shift
     THEN LET t == <<m_translate[1], m_translate[2] + dy, m_translate[3]>> IN
          /\ m_translate' = t
          /\ gvdb' = [gvdb EXCEPT !.xform = SetTransform(Zero3, <<25, 25, 25>>, Zero3, t)]
     ELSE LET dist == gvdb.cam.dist - dy IN
          /\ gvdb' = [gvdb EXCEPT !.cam = setOrbit(@, @.ang, @.to_pos, dist, @.dolly)]
          /\ UNCHANGED m_translate
  /\ UNCHANGED sample
  /\ posted' = 1
  /\ redraw' = TRUE
  /\ dirty' = TRUE

motionRight(dx, dy, shift) ==
  /\ IF shift
     THEN LET t == <<m_translate[1], m_translate[2] + dy, m_translate[3]>> IN
          /\ m_translate' = t
          /\ gvdb' = [gvdb EXCEPT !.xform = SetTransform(Zero3, <<25, 25, 25>>, Zero3, t)]
     ELSE LET dist == gvdb.cam.dist - dy IN
          /\ gvdb' = [gvdb EXCEPT !.cam = setOrbit(@, @.ang, @.to_pos, dist, @.dolly)]
          /\ UNCHANGED m_translate
  /\ sample' = 0
  /\ posted' = 1
  /\ redraw' = TRUE
  /\ dirty' = TRUE

\* Variant: a motion event with no button down invalidates and redraws too.
motion_AlwaysResets(dx, dy, shift) ==
  /\ phase = "running"
  /\ CASE mouse_down = MOUSE_BUTTON_LEFT   -> motionLeft(dx, dy, shift)
       [] mouse_down = MOUSE_BUTTON_MIDDLE -> motionMiddle(dx, dy)
       [] mouse_down = MOUSE_BUTTON_RIGHT  -> motionRight(dx, dy, shift)
       [] OTHER -> /\ posted' = 1
                   /\ sample' = 0
                   /\ redraw' = TRUE
                   /\ UNCHANGED <<gvdb, m_translate, dirty>>
  /\ lastEvent' = "motion"
  /\ args' = [dx |-> dx, dy |-> dy, shift |-> shift]
  /\ click' = NoClick
  /\ built' = <<>>
  /\ events' = events + 1
  /\ ticks' = 0
  /\ UNCHANGED <<phase, env, winsize, gl_screen_tex, mouse_down, frame, max_samples,
                 m_shading, m_render_optix, mat_surf1, mat_deep, optx, builds>>

\* void Sample::motion(int x, int y, int dx, int dy); shift is
\* getMods() & KMOD_SHIFT.
motion(dx, dy, shift) ==
  /\ phase = "running"
  /\ CASE mouse_down = MOUSE_BUTTON_LEFT   -> motionLeft(dx, dy, shift)
       [] mouse_down = MOUSE_BUTTON_MIDDLE -> motionMiddle(dx, dy)
       [] mouse_down = MOUSE_BUTTON_RIGHT  -> motionRight(dx, dy, shift)
       [] OTHER -> /\ posted' = 0
                   /\ UNCHANGED <<gvdb, m_translate, sample, redraw, dirty>>
  /\ lastEvent' = "motion"
  /\ args' = [dx |-> dx, dy |-> dy, shift |-> shift]
  /\ click' = NoClick
  /\ built' = <<>>
  /\ events' = events + 1
  /\ ticks' = 0
  /\ UNCHANGED <<phase, env, winsize, gl_screen_tex, mouse_down, frame, max_samples,
                 m_shading, m_render_optix, mat_surf1, mat_deep, optx, builds>>

\* void Sample::RebuildOptixGraph(int shading), called on the running session.
RebuildOptixGraph(shading) ==
  /\ phase = "running"
  /\ \E ub \in UninitPairs :
       LET r == RebuiltGraph(optx.graph, shading, ub, SceneOf(gvdb), env.progsOk)
       IN /\ optx' = [optx EXCEPT !.graph = r.graph]
          /\ mat_surf1' = r.mat_surf1
          /\ mat_deep' = r.mat_deep
  /\ posted' = 0
  /\ lastEvent' = "rebuild"
  /\ builds' = builds + 1
  /\ built' = Append(built, shading)
  /\ UNCHANGED <<phase, env, winsize, gl_screen_tex, mouse_down, frame, sample,
                 max_samples, m_shading, m_render_optix, m_translate, gvdb,
                 redraw, dirty, ticks, events, args, click>>

\* ---------------------------------------------------------- specifications
\* The session as the window system drives it.
Next ==
  \/ init
  \/ frame * max_samples + sample < MaxProgress /\ display
  \/ events < MaxEvents /\ \E s \in Sizes : reshape(s[1], s[2])
  \/ events < MaxEvents /\ \E b \in Buttons, a \in ButtonActions : mouse(b, a)
  \/ events < MaxEvents /\ \E d \in Drags, shift \in BOOLEAN : motion(d[1], d[2], shift)

Spec == Init /\ [][Next]_vars

\* The scene-graph builder invoked on the running session, between display
\* ticks, with any shading mode.
InitBuilder == Constructed(BuilderEnvs)

NextBuilder ==
  \/ init
  \/ ticks < MaxBuilderTicks /\ display
  \/ builds < MaxBuilds /\ \E m \in ShadingInputs : RebuildOptixGraph(m)

SpecBuilder == InitBuilder /\ [][NextBuilder]_vars

\* ------------------------------------------------------------------ claims
Running == phase = "running"
Graph == optx.graph
\* The step is a run of the named handler.
Ran(h) == lastEvent' = h
\* The shading mode of the latest builder invocation.
LastBuilt == built[Len(built)]
\* The material the graph's id names, "none" when the id is dangling.
MaterialName(id) ==
  IF id \in 0..(Len(Graph.mats) - 1) THEN Graph.mats[id + 1].name ELSE "none"

\* C1: after every motion event processed with a button down (any button,
\* modifier on or off) sample is 0 and the event requested a redraw; sample
\* is still 0 for as long as no display tick has begun since.
C1_DragInvalidates ==
  /\ (lastEvent = "motion" /\ mouse_down \in Buttons)
        => (sample = 0 /\ posted >= 1 /\ redraw)
  /\ dirty => sample = 0

\* A drag that found samples accumulated, followed by a button event, with no
\* display tick begun since the drag.
C1_Witness ==
  /\ dirty /\ lastEvent = "mouse" /\ optx.rendered.sample >= 1
  /\ frame = 0 /\ sample = 0

\* C2: one display tick started with 0 <= sample < max_samples ends in
\* (frame, sample + 1) when sample + 1 < max_samples and in (frame + 1, 0)
\* when sample = max_samples - 1; max_samples does not change.
C2_DisplayAdvances ==
  [][(Ran("display") /\ 0 <= sample /\ sample < max_samples) =>
       /\ (sample + 1 < max_samples => (frame' = frame /\ sample' = sample + 1))
       /\ (sample = max_samples - 1 => (frame' = frame + 1 /\ sample' = 0))
       /\ max_samples' = max_samples]_vars

\* A display tick has wrapped sample to 0 after an interaction.
C2_Witness ==
  /\ lastEvent = "display" /\ frame = 1 /\ sample = 0 /\ events > 0
  /\ optx.rendered.sample = max_samples - 1

\* C3: from the initialised session (frame 0, sample 0, max_samples 1024),
\* after k * max_samples display ticks with no input event in between,
\* frame = k and sample = 0; in between, the tick count is
\* frame * max_samples + sample.
C3_QuietTicks ==
  /\ (Running /\ lastEvent = "init") =>
        (frame = 0 /\ sample = 0 /\ max_samples = 1024 /\ m_shading = SHADE_VOLUME)
  /\ (Running /\ events = 0) =>
        /\ ticks = frame * max_samples + sample
        /\ (ticks % 1024 = 0 => (frame = ticks \div 1024 /\ sample = 0))

\* 1024 ticks have passed with no input event.
C3_Witness ==
  Running /\ events = 0 /\ ticks = 1024 /\ frame = 1 /\ sample = 0

\* C4 as stated: at every render dispatch the pair the backend was last
\* informed of equals the session's current (frame, sample).
C4_InformedIsCurrent ==
  (Running /\ lastEvent = "display") =>
     (optx.rendered.frame = frame /\ optx.rendered.sample = sample)

\* C4 amended: a display tick informs the backend of the pair the tick starts
\* with, then advances the counters, then dispatches the render; the render
\* consumes the pair the tick started with, and the session's pair at the
\* dispatch is its successor.
C4_InformedIsTickStart ==
  [][Ran("display") =>
       /\ optx'.frame = frame /\ optx'.sample = sample
       /\ optx'.rendered.frame = frame /\ optx'.rendered.sample = sample
       /\ optx'.rendered.shading = m_shading
       /\ IF sample + 1 < max_samples
          THEN frame' = frame /\ sample' = sample + 1
          ELSE frame' = frame + 1 /\ sample' = 0]_vars

\* A render dispatched in the tick that wrapped to the next frame.
C4_Witness ==
  /\ lastEvent = "display" /\ optx.rendered.frame = 0
  /\ optx.rendered.sample = 1023 /\ frame = 1 /\ sample = 0

\* C5: a builder invocation with a shading mode other than trilinear, volume
\* or empty-skip performs no graph mutation: the engine and the material ids
\* are as they were before it.
C5_InvalidModeNoMutation ==
  [][(Ran("rebuild") /\ built'[Len(built')] \notin ValidShading) =>
       (optx' = optx /\ mat_surf1' = mat_surf1 /\ mat_deep' = mat_deep)]_vars

\* C6: a graph whose validation failed is not synchronised with the volume
\* payload, init does not report success over it, and no display tick
\* dispatches a render against it.
C6_ValidationFailureIsFatal ==
  /\ Graph.validated = "failed" => (~Graph.synced /\ ~Running)
  /\ optx.rendered.validated # "failed"

\* C7: every successful builder invocation, from any accumulation state
\* (f, s), leaves the accumulation state (f, 0).
C7_RebuildResetsSample ==
  [][(Ran("rebuild") /\ optx'.graph.validated = "ok") =>
       (frame' = frame /\ sample' = 0)]_vars

\* C8: a builder invocation that directly follows another one (init's
\* included) with the same valid shading mode leaves the graph equal to the
\* one it found: two registered materials, one volume node, one geometry
\* node, the same material id and intersection tag on the volume node.
C8_RebuildIdempotent ==
  [][(Ran("rebuild") /\ built # <<>> /\ LastBuilt \in ValidShading
        /\ built'[Len(built')] = LastBuilt) =>
       /\ optx'.graph = optx.graph
       /\ Len(optx'.graph.mats) = 2
       /\ Len(optx'.graph.vols) = 1
       /\ Len(optx'.graph.polys) = 1
       /\ optx'.graph.vols[1].matid = optx.graph.vols[1].matid
       /\ optx'.graph.vols[1].isect = optx.graph.vols[1].isect
       /\ mat_surf1' = mat_surf1 /\ mat_deep' = mat_deep]_vars

\* Two builder invocations after init, the second repeating the first's mode.
C8_Witness ==
  /\ lastEvent = "rebuild" /\ Len(built) = 3
  /\ built[2] = SHADE_TRILINEAR /\ built[3] = SHADE_TRILINEAR
  /\ Len(Graph.mats) = 2 /\ Graph.vols[1].isect = "S"

\* C9: after a builder invocation with a valid shading mode the one volume
\* node carries: trilinear -> (surface material, 'S'), volume -> (deep-volume
\* material, 'D'), empty-skip -> (surface material, 'E'); its transform is
\* the identity, whatever the volume's own transform.
C9_ShadingTable ==
  (Running /\ built # <<>> /\ LastBuilt \in ValidShading) =>
     /\ Len(Graph.vols) = 1
     /\ LET v == Graph.vols[1] IN
        /\ LastBuilt = SHADE_TRILINEAR =>
             (v.matid = mat_surf1 /\ v.isect = "S"
                /\ MaterialName(v.matid) = "optix_trace_surface")
        /\ LastBuilt = SHADE_VOLUME =>
             (v.matid = mat_deep /\ v.isect = "D"
                /\ MaterialName(v.matid) = "optix_trace_deep")
        /\ LastBuilt = SHADE_EMPTYSKIP =>
             (v.matid = mat_surf1 /\ v.isect = "E"
                /\ MaterialName(v.matid) = "optix_trace_surface")
        /\ v.xform = IdentityXform

\* The builder has run with empty-skip on a volume whose own transform is not
\* the identity.
C9_Witness ==
  /\ lastEvent = "rebuild" /\ LastBuilt = SHADE_EMPTYSKIP
  /\ Graph.vols[1].isect = "E"
  /\ gvdb.xform.trans # Zero3 /\ gvdb.xform.scale # IdentityXform.scale

\* C10: a motion event (dx, dy) with the left button down and the modifier
\* off adds (0.2*dx, -0.2*dy, 0) degrees to the orbit angles, (10, -5) giving
\* (+2.0, +1.0, 0); target, distance, dolly and the volume translation stay
\* as they were, and sample is 0.
C10_LeftDragOrbits ==
  [][(Ran("motion") /\ mouse_down = MOUSE_BUTTON_LEFT /\ ~args'.shift) =>
       /\ gvdb'.cam.ang = <<gvdb.cam.ang[1] + args'.dx,
                            gvdb.cam.ang[2] - args'.dy,
                            gvdb.cam.ang[3]>>
       /\ (args'.dx = 10 /\ args'.dy = -5) =>
             gvdb'.cam.ang = VAdd(gvdb.cam.ang, <<Deg(2), Deg(1), 0>>)
       /\ gvdb'.cam.to_pos = gvdb.cam.to_pos
       /\ gvdb'.cam.dist = gvdb.cam.dist
       /\ gvdb'.cam.dolly = gvdb.cam.dolly
       /\ m_translate' = m_translate
       /\ gvdb'.xform = gvdb.xform
       /\ sample' = 0]_vars

\* The drag (10, -5) with the left button and no modifier, on the initial
\* camera, after samples had accumulated.
C10_Witness ==
  /\ lastEvent = "motion" /\ mouse_down = MOUSE_BUTTON_LEFT
  /\ args = [dx |-> 10, dy |-> -5, shift |-> FALSE]
  /\ gvdb.cam.ang = <<Deg(-20) + Deg(2), Deg(30) + Deg(1), 0>>
  /\ optx.rendered.sample >= 1 /\ sample = 0

C12_MotionWithoutButton ==
  [][(Ran("motion") /\ mouse_down = MOUSE_NONE) =>
       /\ gvdb' = gvdb
       /\ m_translate' = m_translate
       /\ frame' = frame /\ sample' = sample
       /\ mouse_down' = mouse_down
       /\ optx' = optx
       /\ posted' = 0]_vars

\* A motion event arrived with no button down, after a release, while samples
\* were accumulated.
C12_Witness ==
  /\ lastEvent = "motion" /\ mouse_down = MOUSE_NONE /\ args.dx = 10
  /\ events >= 2 /\ sample >= 1 /\ posted = 0

\* C13: when the volumetric dataset or the polygonal model file is not found,
\* init does not report success, the scene graph is never built and no
\* display tick dispatches a render.
C13_MissingAssetAborts ==
  (phase # "constructed" /\ (~env.vdbFound \/ ~env.objFound)) =>
     /\ phase = "aborted"
     /\ Graph.calls = <<>>
     /\ optx.rendered.shading = "none"

\* C14: after any sequence of press, release, motion and display events the
\* volume transform has the rotation, scale and rotation centre set at
\* initialisation; only its translation changes, and it is the translation
\* last handed to the transform-setting call.
C14_OnlyTranslationChanges ==
  Running =>
     /\ gvdb.xform.rot = <<0, 90, 0>>
     /\ gvdb.xform.scale = <<25, 25, 25>>
     /\ gvdb.xform.centre = Zero3
     /\ gvdb.xform.trans = m_translate

\* C15: mouse_down is -1 when init has run; a press of button b sets it to b,
\* whatever it was; a release of any button sets it to -1, also when another
\* button is the one held; motion, display and reshape leave it as it is.
C15_ButtonState ==
  [][/\ (Ran("init") /\ phase' = "running") => mouse_down' = MOUSE_NONE
     /\ (Ran("mouse") /\ click'.state = BUTTON_PRESS) => mouse_down' = click'.button
     /\ (Ran("mouse") /\ click'.state = BUTTON_RELEASE) => mouse_down' = MOUSE_NONE
     /\ (Ran("motion") \/ Ran("display") \/ Ran("reshape")) => mouse_down' = mouse_down
    ]_vars

\* The right button is released after a drag that only the left button
\* produces: the left button was the one held.
C15_Witness ==
  /\ lastEvent = "mouse" /\ mouse_down = MOUSE_NONE
  /\ click = [button |-> MOUSE_BUTTON_RIGHT, state |-> BUTTON_RELEASE]
  /\ gvdb.cam.ang = <<Deg(-20) + 10, Deg(30) + 5, 0>>
  /\ events = 3

\* C16: every volume node and every geometry node of the graph references a
\* material id registered in the rebuild that added it, whatever shading mode
\* the builder was given.
C16_NodesReferenceMaterials ==
  /\ \A i \in 1..Len(Graph.vols) : Graph.vols[i].matid \in 0..(Len(Graph.mats) - 1)
  /\ \A i \in 1..Len(Graph.polys) : Graph.polys[i].matid \in 0..(Len(Graph.mats) - 1)

\* The engine calls of one whole rebuild, in the order of the claim.
RebuildOrder ==
  <<"ClearGraph", "AddMaterial", "SetMaterialParams", "AddMaterial",
    "SetMaterialParams", "AddVolume", "AddPolygons", "SetTransferFunc",
    "ValidateGraph", "UpdateVolume">>

\* The place of the first call named c in the graph's call log, 0 if none.
CallIndex(c) ==
  IF \E i \in 1..Len(Graph.calls) : Graph.calls[i] = c
  THEN CHOOSE i \in 1..Len(Graph.calls) :
         /\ Graph.calls[i] = c
         /\ \A j \in 1..(i - 1) : Graph.calls[j] # c
  ELSE 0

\* C17: one rebuild clears the graph, registers the surface material, then
\* the deep-volume material, adds the volume node, adds the geometry node,
\* pushes the transfer function, validates, and synchronises the volume
\* payload, in this order: the transfer function comes after every material
\* and node and before the validation, the payload sync after the validation.
C17_RebuildOrder ==
  Running =>
     /\ Graph.calls = RebuildOrder
     /\ Graph.mats[1].name = "optix_trace_surface"
     /\ Graph.mats[2].name = "optix_trace_deep"
     /\ \A i \in 1..Len(Graph.calls) :
          Graph.calls[i] \in {"AddMaterial", "SetMaterialParams", "AddVolume", "AddPolygons"}
             => i < CallIndex("SetTransferFunc")
     /\ CallIndex("SetTransferFunc") < CallIndex("ValidateGraph")
     /\ CallIndex("ValidateGraph") < CallIndex("UpdateVolume")

\* A rebuild after init's has run to its end.
C17_Witness ==
  /\ lastEvent = "rebuild" /\ builds = 2 /\ LastBuilt = SHADE_TRILINEAR
  /\ Len(Graph.calls) = 10 /\ Graph.synced /\ Graph.tf = "linear"

\* The number of display ticks a session without drags has taken.
Progress == frame * max_samples + sample

\* The display tick the window system may take: a redraw is requested.
DisplayTick == Progress < MaxProgress /\ display

\* The session whose only interaction is the orbit drag of the left button.
NextLive ==
  \/ init
  \/ DisplayTick
  \/ events < MaxEvents /\ mouse(MOUSE_BUTTON_LEFT, BUTTON_PRESS)
  \/ events < MaxEvents /\ \E d \in Drags : motion(d[1], d[2], FALSE)

\* That session under a window system that serves a pending redraw request.
SpecLive == Init /\ [][NextLive]_vars /\ WF_vars(DisplayTick)

\* C18: every display tick ends with a redraw request posted, in the middle
\* of an accumulation, at the wrap to a new frame and after a drag reset the
\* sample; so, the window system serving redraw requests, ticks keep coming
\* and the frame advances past every value below the horizon MaxProgress.
C18_SelfScheduling ==
  /\ [](lastEvent = "display" => (redraw /\ posted >= 1))
  /\ Running ~> (frame >= 1 /\ Progress >= MaxProgress)

\* The tick that wrapped the sample into a new frame left a request pending.
C18_Witness ==
  /\ lastEvent = "display" /\ frame = 1 /\ sample = 0
  /\ redraw /\ posted = 1

\* C19: between handlers of the running session 0 <= sample < max_samples and
\* max_samples is the 1024 of init; no handler lowers frame; frame grows only
\* by one, in a display tick that takes sample from max_samples - 1 to 0; a
\* reshape changes neither frame nor sample.
C19_CounterRange ==
  /\ [](Running => (0 <= sample /\ sample < max_samples /\ max_samples = MAX_SAMPLES))
  /\ [][Running =>
          /\ max_samples' = max_samples
          /\ frame' >= frame
          /\ frame' # frame =>
               /\ Ran("display") /\ frame' = frame + 1
               /\ sample = max_samples - 1 /\ sample' = 0
          /\ Ran("reshape") => (frame' = frame /\ sample' = sample)
       ]_vars

\* A reshape in the second frame, the accumulation under way.
C19_Witness ==
  /\ lastEvent = "reshape" /\ frame = 1 /\ sample = 5
  /\ winsize = <<640, 480>>

\* C20: the render of the first display tick after a drag reset the sample is
\* informed of sample 0, as is the one after the wrap to a new frame and the
\* first after init; with no drag in between, a tick's render is informed of
\* the sample after the one of the render before it, max_samples - 1 being
\* followed by sample 0 of the next frame.
C20_InformedInOrder ==
  [][Ran("display") =>
       /\ dirty => (optx'.rendered.sample = 0 /\ optx'.rendered.frame = frame)
       /\ optx.rendered.shading = "none" =>
            (optx'.rendered.sample = 0 /\ optx'.rendered.frame = 0)
       /\ (~dirty /\ optx.rendered.shading # "none") =>
            IF optx.rendered.sample + 1 < max_samples
            THEN /\ optx'.rendered.sample = optx.rendered.sample + 1
                 /\ optx'.rendered.frame = optx.rendered.frame
            ELSE /\ optx'.rendered.sample = 0
                 /\ optx'.rendered.frame = optx.rendered.frame + 1
    ]_vars

\* The first render after an orbit drag of the left button.
C20_Witness ==
  /\ lastEvent = "display" /\ events = 2 /\ ~dirty
  /\ optx.rendered.sample = 0 /\ optx.rendered.frame = 0 /\ sample = 1
  /\ gvdb.cam.ang = <<Deg(-20) + 10, Deg(30) + 5, 0>>

=============================================================================
